---- MODULE Spec2Model ----
(***************************************************************************)
(* Model of the transaction submission engine of the dYdX perpetual        *)
(* client: Contracts.send / Contracts._send / Contracts.estimateGas and    *)
(* the process-wide gas accounting (src/src/Perpetual.ts).                 *)
(*                                                                         *)
(* One submission is in flight at a time; the record `call` holds the      *)
(* locals of the running _send invocation, the listeners it attached to    *)
(* the PromiEvent returned by method.send, and the two promises.           *)
(***************************************************************************)
EXTENDS Integers, Sequences, FiniteSets, TLC

\* ------------------------------------------------------------------ bounds
MaxSends == 2

\* ------------------------------------------------ JavaScript value encoding
\* Number-valued slots hold an integer or one of these three sentinels.
NaN == 0 - 1
Undefined == 0 - 2
Null == 0 - 3

Falsy(x) == x = 0 \/ x = NaN \/ x = Undefined \/ x = Null

\* number + number of JavaScript: anything that is not a number gives NaN.
Plus(a, b) == IF a < 0 \/ b < 0 THEN NaN ELSE a + b

\* A confirmationType value as the caller may pass it: a number, a string
\* or undefined.
Num(n) == [tag |-> "number", num |-> n, str |-> ""]
Str(s) == [tag |-> "string", num |-> 0, str |-> s]
UndefinedType == [tag |-> "undefined", num |-> 0, str |-> ""]

\* enum ConfirmationType
Hash == Num(0)
Confirmed == Num(1)
Both == Num(2)
Simulate == Num(3)

\* Object.values(ConfirmationType): a numeric TypeScript enum compiles to an
\* object that also holds the reverse mapping, so its values are the four
\* member names and the four numbers.
ObjectValuesConfirmationType ==
    {Str("Hash"), Str("Confirmed"), Str("Both"), Str("Simulate"),
     Num(0), Num(1), Num(2), Num(3)}

\* enum OUTCOMES
INITIAL == 0
RESOLVED == 1
REJECTED == 2

\* ------------------------------------------------------------ input domains
ConfirmationTypeInputs ==
    {Hash, Confirmed, Both, Simulate, Num(4), Str("Both"), UndefinedType}

Errors == {"E1", "E2"}
Hashes == {"0xh1", "0xh2"}
Receipts == {[gasUsed |-> 21000, blockNumber |-> 1],
             [gasUsed |-> 45000, blockNumber |-> 2]}
NoReceipt == [gasUsed |-> Undefined, blockNumber |-> 0]
ConfNumbers == {1, 2}
GasEstimates == {3, 5}

\* contractsList entries a method may belong to, and a contract that was
\* never added to contractsList.
Targets == {"perpetualProxy", "erc20", "unlisted"}
IsListed(t) == t \in {"perpetualProxy", "erc20"}
IsTest(t) == t = "erc20"
AddressOf(t) == IF t = "perpetualProxy" THEN "0xaa"
                ELSE IF t = "erc20" THEN "0xbb" ELSE "0xcc"
EncodeABI(t) == IF t = "perpetualProxy" THEN "0xd0e30db0"
                ELSE IF t = "erc20" THEN "0xa9059cbb" ELSE "0x00"
MethodName(t) == IF t = "perpetualProxy" THEN "deposit"
                 ELSE IF t = "erc20" THEN "transfer" ELSE "other"

Restrict(f, S) == [k \in S |-> f[k]]

\* { ...a, ...b }
Merge(a, b) ==
    [k \in DOMAIN a \cup DOMAIN b |-> IF k \in DOMAIN b THEN b[k] ELSE a[k]]

SpecificOptionsInputs ==
    { Restrict([confirmationType |-> ct, confirmations |-> n, gas |-> g], K) :
        ct \in ConfirmationTypeInputs, n \in {2}, g \in {0, 9},
        K \in SUBSET {"confirmationType", "confirmations", "gas"} }

\* ------------------------------------------------ contracts, deployments
\* Contracts constructor: contractsList in the order of the addContract
\* calls.  IsTest above is the isTest flag of an entry.
contractsList ==
    <<"perpetualProxy", "perpetualV1", "p1FundingOracle", "p1MakerOracle",
      "p1Orders", "p1Deleveraging", "p1Liquidation", "p1LiquidatorProxy",
      "erc20">>
ContractNames == {contractsList[i] : i \in DOMAIN contractsList}
IndexOf(contract) ==
    CHOOSE i \in DOMAIN contractsList : contractsList[i] = contract

\* A hex string (address, topic): the digits it denotes and the case it is
\* written in.  A checksummed address and its lower-case form differ as
\* strings and agree after toLowerCase().
Hex(id, cased) == [id |-> id, cased |-> cased]
UndefinedAddress == [id |-> 0, cased |-> "undefined"]
ToLowerCase(h) == [h EXCEPT !.cased = "lower"]

\* json.networks of the deployment artifacts: two networks on which every
\* contract is deployed and one on which p1Liquidation is not.
NetworkIds == {1, 42, 1001}
HasNetwork(json, networkId) ==
    \/ networkId \in {1, 42}
    \/ networkId = 1001 /\ json # "p1Liquidation"
NetworkAddress(json, networkId) ==
    Hex((IF networkId = 1 THEN 10 ELSE IF networkId = 42 THEN 20 ELSE 30)
          + IndexOf(json), "checksum")

\* ------------------------------------------------------ BigNumber values
\* bound on the magnitudes of the balances that are encoded and decoded
MaxMagnitude == 2

\* A BigNumber with an integer value: sign and magnitude, so that -0 (what
\* negated() makes of 0) is a value of its own.
BigNumber(n) == [neg |-> n < 0, abs |-> IF n < 0 THEN 0 - n ELSE n]
isPositive(bn) == ~bn.neg
isZero(bn) == bn.abs = 0
negated(bn) == [bn EXCEPT !.neg = ~bn.neg]
abs(bn) == [bn EXCEPT !.neg = FALSE]
\* BigNumber.eq: comparison by value, +0 equals -0.
eq(a, b) == a.abs = b.abs /\ (a.neg = b.neg \/ a.abs = 0)

\* Digit strings.  A string of digits is the sequence of its digits, most
\* significant first; in a hex string the character x is written X.
X == 16
RECURSIVE ToDigits(_, _)
ToDigits(n, base) ==
    IF n < base THEN <<n>> ELSE Append(ToDigits(n \div base, base), n % base)
RECURSIVE FromDigitsUpTo(_, _, _)
FromDigitsUpTo(digits, i, base) ==
    IF i = 0 THEN 0 ELSE FromDigitsUpTo(digits, i - 1, base) * base + digits[i]
FromDigits(digits, base) == FromDigitsUpTo(digits, Len(digits), base)
\* bn.toFixed(0) of an integer-valued BigNumber: its decimal string, with
\* the sign of a negative non-zero value.
toFixed0(bn) == [minus |-> bn.neg /\ bn.abs # 0, digits |-> ToDigits(bn.abs, 10)]
\* new BigNumber(decimalString)
BigNumberOfString(str) ==
    [neg |-> str.minus, abs |-> FromDigits(str.digits, 10)]
\* string.substr(start, length), start counted from 0
substr(str, start, length) ==
    SubSeq(str, start + 1,
           IF start + length > Len(str) THEN Len(str) ELSE start + length)
\* new BigNumber(hexDigits, 16)
BigNumberOfHex(hexDigits) == [neg |-> FALSE, abs |-> FromDigits(hexDigits, 16)]

\* --------------------------------------------------------------- Balance
\* lib/types.ts: class Balance
Balance(margin, position) == [margin |-> margin, position |-> position]
BalanceEquals(a, b) == eq(a.margin, b.margin) /\ eq(a.position, b.position)

toSolidity(balance) ==
    [marginIsPositive |-> isPositive(balance.margin),
     positionIsPositive |-> isPositive(balance.position),
     margin |-> toFixed0(abs(balance.margin)),
     position |-> toFixed0(abs(balance.position))]

fromSolidityIgnoringFlags(struct) ==
    Balance(BigNumberOfString(struct.margin), BigNumberOfString(struct.position))
fromSolidity(struct) ==
    LET marginBN == BigNumberOfString(struct.margin)
        positionBN == BigNumberOfString(struct.position)
    IN  Balance(IF struct.marginIsPositive THEN marginBN ELSE negated(marginBN),
                IF struct.positionIsPositive THEN positionBN
                ELSE negated(positionBN))

\* The 32-byte word the contract logs for a balance struct: 0x, one byte of
\* margin sign, 15 bytes of margin, one byte of position sign, 15 bytes of
\* position.
PadStart(digits, length) ==
    [i \in 1..(length - Len(digits)) |-> 0] \o digits
PackBalance(struct) ==
    <<0, X>>
      \o <<0, IF struct.marginIsPositive THEN 1 ELSE 0>>
      \o PadStart(ToDigits(FromDigits(struct.margin.digits, 10), 16), 30)
      \o <<0, IF struct.positionIsPositive THEN 1 ELSE 0>>
      \o PadStart(ToDigits(FromDigits(struct.position.digits, 10), 16), 30)

\* Logs.parseBalance; rawValue is the word it was parsed from.
parseBalance(balance) ==
    LET margin == BigNumberOfHex(substr(balance, 4, 30))
        position == BigNumberOfHex(substr(balance, 36, 30))
        marginIsPositive == ~isZero(BigNumberOfHex(substr(balance, 2, 2)))
        positionIsPositive == ~isZero(BigNumberOfHex(substr(balance, 34, 2)))
    IN  [margin |-> IF marginIsPositive THEN margin ELSE negated(margin),
         position |-> IF positionIsPositive THEN position
                      ELSE negated(position),
         rawValue |-> balance]

\* ------------------------------------------------- event argument values
\* What a decoding function hands back: the value it returns, tagged with
\* the class of that value, or the message of the error it throws.
Return(kind, value) == [threw |-> "", kind |-> kind, value |-> value]
Throw(message) == [threw |-> message, kind |-> "none", value |-> Null]

BASE_DECIMALS == 18
\* BaseValue.fromSolidity: the integer shifted by -BASE_DECIMALS places
BaseValueFromSolidity(bn, positive) ==
    [mantissa |-> IF positive THEN bn ELSE negated(bn),
     exponent |-> 0 - BASE_DECIMALS]

\* Logs.parseIndex / Logs.parseFundingRate
parseIndex(index) ==
    LET timestamp == BigNumberOfHex(substr(index, 2, 30))
        positive == ~isZero(BigNumberOfHex(substr(index, 32, 2)))
        value == BigNumberOfHex(substr(index, 34, 32))
    IN  [timestamp |-> timestamp, rawValue |-> index,
         baseValue |-> BaseValueFromSolidity(value, positive)]
parseFundingRate(fundingRate) == parseIndex(fundingRate)

\* lib/Constants ORDER_FLAGS: bit 0 is-buy, bit 1 is-decrease-only, bit 2
\* is-negative-limit-fee.
IS_BUY == 1
IS_DECREASE_ONLY == 2
IS_NEGATIVE_LIMIT_FEE == 4
BitAnd(n, bit) == IF (n \div bit) % 2 = 1 THEN bit ELSE 0
\* Logs.parseOrderFlags; new BigNumber(flags, 16) reads past the 0x prefix.
parseOrderFlags(flags) ==
    LET flagsNumber == BigNumberOfHex(substr(flags, 2, Len(flags))).abs % 8
    IN  [rawValue |-> flags,
         isBuy |-> BitAnd(flagsNumber, IS_BUY) # 0,
         isDecreaseOnly |-> BitAnd(flagsNumber, IS_DECREASE_ONLY) # 0,
         isNegativeLimitFee |-> BitAnd(flagsNumber, IS_NEGATIVE_LIMIT_FEE) # 0]

\* Solidity type names, character by character.
DecimalDigits == {"0", "1", "2", "3", "4", "5", "6", "7", "8", "9"}
bytes == <<"b", "y", "t", "e", "s">>
uint == <<"u", "i", "n", "t">>
int == <<"i", "n", "t">>
bytes32 == bytes \o <<"3", "2">>
bytes4 == bytes \o <<"4">>
uint256 == uint \o <<"2", "5", "6">>
uint32 == uint \o <<"3", "2">>
int256 == int \o <<"2", "5", "6">>
int8 == int \o <<"8">>
address == <<"a", "d", "d", "r", "e", "s", "s">>
bool == <<"b", "o", "o", "l">>
string == <<"s", "t", "r", "i", "n", "g">>
tuple == <<"t", "u", "p", "l", "e">>
uint256Array == uint256 \o <<"[", "]">>

\* type.match(/^prefix[0-9]*$/)
MatchesWithDigits(type, prefix) ==
    /\ Len(type) >= Len(prefix)
    /\ SubSeq(type, 1, Len(prefix)) = prefix
    /\ \A i \in (Len(prefix) + 1)..Len(type) : type[i] \in DecimalDigits

\* TUPLE_MAP
TupleTypes == {"struct P1Orders.Fill"}
TUPLE_MAP(internalType) == <<"amount", "price", "fee", "isNegativeFee">>

\* An AbiInput.
AbiInput(type, name) ==
    [type |-> type, name |-> name, internalType |-> "", components |-> <<>>]
TupleInput(name, internalType, components) ==
    [type |-> tuple, name |-> name, internalType |-> internalType,
     components |-> components]
\* The struct argument of an event as an ABI may declare it: as TUPLE_MAP
\* has it, under an internal type TUPLE_MAP does not have, and with two
\* components in the other order.
FillComponents ==
    <<AbiInput(uint256, "amount"), AbiInput(uint256, "price"),
      AbiInput(uint256, "fee"), AbiInput(bool, "isNegativeFee")>>
TupleInputList ==
    <<TupleInput("fill", "struct P1Orders.Fill", FillComponents),
      TupleInput("fill", "struct P1Orders.Order", FillComponents),
      TupleInput("fill", "struct P1Orders.Fill",
                 <<AbiInput(uint256, "price"), AbiInput(uint256, "amount"),
                   AbiInput(uint256, "fee"), AbiInput(bool, "isNegativeFee")>>)>>
TupleInputs == {TupleInputList[i] : i \in DOMAIN TupleInputList}

\* Logs.parseValue, Logs.parseTuple and Logs.parseArgs.  parseArgs hands back
\* the object built from the inputs, or the first error thrown.
RECURSIVE parseValue(_, _)
RECURSIVE parseArgsFrom(_, _, _, _)
parseArgsFrom(inputs, eventArgs, i, parsedObject) ==
    IF i > Len(inputs) THEN Return("Object", parsedObject)
    ELSE LET name == inputs[i].name
             parsed == parseValue(inputs[i], eventArgs[name])
         IN  IF parsed.threw # "" THEN parsed
             ELSE parseArgsFrom(inputs, eventArgs, i + 1,
                                Merge(parsedObject, (name :> parsed)))
parseArgs(inputs, eventArgs) == parseArgsFrom(inputs, eventArgs, 1, <<>>)

\* Variant: the names of the components are not compared.
parseTupleUnchecked(input, argValue) ==
    IF input.internalType \notin TupleTypes
    THEN Throw("Unknown tuple type in event")
    ELSE parseArgs(input.components, argValue)

parseTuple(input, argValue) ==
    IF input.internalType \notin TupleTypes
    THEN Throw("Unknown tuple type in event")
    ELSE IF TUPLE_MAP(input.internalType)
              # [i \in DOMAIN input.components |-> input.components[i].name]
    THEN Throw("Arg name mismatch for tuple")
    ELSE parseArgs(input.components, argValue)

parseValue(input, argValue) ==
    IF input.type = bytes32
         /\ input.name \in {"balance", "makerBalance", "takerBalance"}
    THEN Return("Balance", parseBalance(argValue))
    ELSE IF input.type = bytes32 /\ input.name = "index"
    THEN Return("Index", parseIndex(argValue))
    ELSE IF input.type = bytes32 /\ input.name = "flags"
    THEN Return("OrderFlags", parseOrderFlags(argValue))
    ELSE IF input.type = bytes32 /\ input.name = "fundingRate"
    THEN Return("Index", parseFundingRate(argValue))
    ELSE IF input.type = uint256 /\ input.name = "fee"
    THEN Return("Fee", BaseValueFromSolidity(BigNumberOfString(argValue), TRUE))
    ELSE IF input.type = uint256
              /\ input.name \in {"price", "oraclePrice", "settlementPrice",
                                 "triggerPrice"}
    THEN Return("Price",
                BaseValueFromSolidity(BigNumberOfString(argValue), TRUE))
    ELSE IF input.type = address THEN Return("argValue", argValue)
    ELSE IF input.type = bool THEN Return("argValue", argValue)
    ELSE IF MatchesWithDigits(input.type, bytes)
    THEN Return("argValue", argValue)
    ELSE IF MatchesWithDigits(input.type, uint)
    THEN Return("BigNumber", BigNumberOfString(argValue))
    ELSE IF input.type = tuple THEN parseTuple(input, argValue)
    ELSE Throw("Unknown event arg type")

\* ------------------------------------------------------ ABIs and raw logs
\* bound on the number of events of one receipt
MaxLogs == 2

\* The events of contract.options.jsonInterface.  The proxy and its
\* implementation both declare the event with signature 2, under two names.
AbiEvent(id, name, inputs) ==
    [type |-> "event", signature |-> Hex(id, "lower"), name |-> name,
     inputs |-> inputs]
jsonInterface(contract) ==
    IF contract = "perpetualProxy"
    THEN <<AbiEvent(1, "Upgraded", <<AbiInput(address, "implementation")>>),
           AbiEvent(2, "AdminChanged", <<AbiInput(address, "newAdmin")>>)>>
    ELSE IF contract = "perpetualV1"
    THEN <<AbiEvent(2, "LogAdminChanged", <<AbiInput(address, "newAdmin")>>),
           AbiEvent(3, "LogDeposit",
                    <<AbiInput(address, "account"),
                      AbiInput(uint256, "amount")>>)>>
    ELSE IF contract = "p1Orders"
    THEN <<AbiEvent(5, "LogOrderFilled",
                    <<AbiInput(bytes32, "flags"),
                      AbiInput(uint256, "triggerPrice")>>)>>
           \o [i \in DOMAIN TupleInputList |->
                 AbiEvent(40 + i, "LogFill", <<TupleInputList[i]>>)]
    ELSE IF contract = "p1LiquidatorProxy"
    THEN <<AbiEvent(7, "LogLiquidatorProxyUsed",
                    <<AbiInput(bool, "isBuy"), AbiInput(uint256, "fee")>>)>>
    ELSE IF contract = "erc20"
    THEN <<AbiEvent(8, "Transfer", <<AbiInput(uint256, "value")>>)>>
    ELSE <<>>

\* What web3.eth.abi.decodeLog reads out of the data and topics of a log:
\* the raw value of every declared input.
DecimalString(n) == [minus |-> FALSE, digits |-> ToDigits(n, 10)]
LogData(signatureId) ==
    IF signatureId = 3
    THEN [account |-> Hex(91, "checksum"), amount |-> DecimalString(7)]
    ELSE IF signatureId = 5
    THEN [flags |-> <<0, X>> \o PadStart(<<5>>, 64),
          triggerPrice |-> DecimalString(2)]
    ELSE IF signatureId = 7
    THEN [isBuy |-> TRUE, fee |-> DecimalString(1)]
    ELSE IF signatureId = 8
    THEN [value |-> DecimalString(9)]
    ELSE IF signatureId > 40
    THEN [fill |-> [amount |-> DecimalString(7), price |-> DecimalString(2),
                    fee |-> DecimalString(1), isNegativeFee |-> TRUE]]
    ELSE [implementation |-> Hex(12, "checksum"),
          newAdmin |-> Hex(90, "checksum")]
decodeLog(inputs, data, topics) ==
    [name \in {inputs[i].name : i \in DOMAIN inputs} |-> data[name]]

\* Raw logs as a node reports them: the address in either case.
RawLog(addressId, cased, signatureId, logIndex) ==
    [address |-> Hex(addressId, cased), data |-> LogData(signatureId),
     topics |-> <<Hex(signatureId, "lower")>>, logIndex |-> logIndex]
\* The same emission as an entry of receipt.events.
EventLog(log) ==
    [address |-> log.address, logIndex |-> log.logIndex,
     raw |-> [data |-> log.data, topics |-> log.topics]]

\* ------------------------------------------------------------------- state
VARIABLES
    defaultOptions,      \* Contracts.defaultOptions
    cumulativeGasUsed,   \* Contracts._cumulativeGasUsed
    gasUsedByFunction,   \* Contracts._gasUsedByFunction
    debugGasUsage,       \* process.env.DEBUG_GAS_USAGE_BY_FUNCTION === 'true'
    offDetaches,         \* does promi.off() without an event name detach?
    sends,               \* number of send() calls made so far
    confirmedGas,        \* history: gasUsed of the receipts confirmed since reset
    call,                \* the submission in flight
    options,             \* contract.options.address of every contract
    _contractsByAddress, \* Logs._contractsByAddress
    decoded              \* the last configuration or decoding call, its outcome

sendVars == <<defaultOptions, cumulativeGasUsed, gasUsedByFunction,
              debugGasUsage, offDetaches, sends, confirmedGas, call>>
logsVars == <<options, _contractsByAddress, decoded>>
vars == <<defaultOptions, cumulativeGasUsed, gasUsedByFunction, debugGasUsage,
          offDetaches, sends, confirmedGas, call, options,
          _contractsByAddress, decoded>>

\* Contracts.setContractProvider: the address the contract gets.
setContractProviderOwnJson(contract, contractJson, networkId) ==
    IF HasNetwork(contractJson, networkId)
    THEN NetworkAddress(contractJson, networkId)
    ELSE UndefinedAddress
setContractProvider(contract, contractJson, networkId) ==
    LET json == IF contract = "perpetualV1" THEN "perpetualProxy"
                ELSE contractJson
    IN  IF HasNetwork(json, networkId) THEN NetworkAddress(json, networkId)
        ELSE UndefinedAddress
\* Contracts.setProvider: every contract of contractsList is configured.
setProvider(networkId) ==
    [contract \in ContractNames |->
        setContractProvider(contract, contract, networkId)]

MAINNET == 1
UndefinedRegistry == [defined |-> FALSE, byAddress |-> <<>>]
NoCall == [op |-> "none"]

\* constructor: gasMultiplier 1.5 is kept in tenths.
DefaultOptions ==
    [gas |-> Null, gasPrice |-> 1000000000, value |-> 0, from |-> "null",
     confirmations |-> 0, confirmationType |-> Confirmed, gasMultiplier |-> 15]

PendingPromise == [state |-> "pending", hash |-> "", receipt |-> NoReceipt, error |-> ""]
NoPromise == [state |-> "none", hash |-> "", receipt |-> NoReceipt, error |-> ""]

NoSignal == [event |-> "none", error |-> "", hash |-> "", confNumber |-> 0,
             receipt |-> NoReceipt, seq |-> 0]
NoError == [error |-> "", transactionData |-> [none |-> TRUE]]
NoResult == [none |-> TRUE]

IdleCall ==
    [pc |-> "idle",
     specificOptions |-> <<>>,
     sendOptions |-> DefaultOptions,
     target |-> "perpetualProxy",
     txOptions |-> [from |-> "null", gasPrice |-> 0, gas |-> Null, value |-> 0],
     estimateGasCalls |-> 0,
     methodSendCalls |-> 0,
     broadcastGas |-> Undefined,
     hashOutcome |-> INITIAL,
     confirmationOutcome |-> INITIAL,
     transactionHash |-> "undefined",
     hashPromise |-> NoPromise,
     confirmationPromise |-> NoPromise,
     listeners |-> {},
     result |-> NoResult,
     error |-> NoError,
     estimateGasRejection |-> "",
     lastSignal |-> NoSignal]

Init ==
    /\ defaultOptions = DefaultOptions
    /\ cumulativeGasUsed = 0
    /\ gasUsedByFunction = <<>>
    /\ debugGasUsage \in BOOLEAN
    /\ offDetaches \in BOOLEAN
    /\ sends = 0
    /\ confirmedGas = 0
    /\ call = IdleCall
    /\ options = setProvider(MAINNET)
    /\ _contractsByAddress = UndefinedRegistry
    /\ decoded = NoCall

\* ------------------------------------------------------- promise settlement
\* resolve(v) / reject(e) of a Promise executor: only the first call settles.
ResolveHash(p, txHash) ==
    IF p.state = "pending" THEN [p EXCEPT !.state = "fulfilled", !.hash = txHash] ELSE p

ResolveReceipt(p, receipt) ==
    IF p.state = "pending" THEN [p EXCEPT !.state = "fulfilled", !.receipt = receipt] ELSE p

Reject(p, error) ==
    IF p.state = "pending" THEN [p EXCEPT !.state = "rejected", !.error = error] ELSE p

\* (promi as any).off(): called without an event name.  What that does is
\* decided by the emitter behind the PromiEvent, which is not part of this
\* repository: an emitter in the style of component-emitter drops every
\* listener, eventemitter3 (web3 1.x) drops none.
Off(c) == IF offDetaches THEN [c EXCEPT !.listeners = {}] ELSE c

\* ------------------------------------------------------------ the listeners
\* Variant: the error listener of the hash race sends the transaction again.
OnHashErrorRetries(c, error) ==
    IF c.hashOutcome = INITIAL
    THEN [c EXCEPT !.methodSendCalls = @ + 1]
    ELSE c

\* hash race, promi.on('error')
OnHashError(c, error) ==
    IF c.hashOutcome = INITIAL
    THEN Off([c EXCEPT !.hashOutcome = REJECTED,
                       !.hashPromise = Reject(@, error)])
    ELSE c

\* hash race, promi.on('transactionHash')
OnTransactionHash(c, txHash) ==
    IF c.hashOutcome = INITIAL
    THEN LET r == [c EXCEPT !.hashOutcome = RESOLVED,
                            !.hashPromise = ResolveHash(@, txHash)]
         IN  IF c.sendOptions.confirmationType # Both THEN Off(r) ELSE r
    ELSE c

\* Variant: the error listener does not test confirmationOutcome.
OnConfirmationErrorUnguarded(c, error) ==
    IF \/ c.sendOptions.confirmationType = Confirmed
       \/ c.hashOutcome = RESOLVED
    THEN Off([c EXCEPT !.confirmationOutcome = REJECTED,
                       !.confirmationPromise = Reject(@, error)])
    ELSE c

\* Variant: the error listener rejects only once the hash race has resolved.
OnConfirmationErrorAfterHashOnly(c, error) ==
    IF c.confirmationOutcome = INITIAL /\ c.hashOutcome = RESOLVED
    THEN Off([c EXCEPT !.confirmationOutcome = REJECTED,
                       !.confirmationPromise = Reject(@, error)])
    ELSE c

\* confirmation race, promi.on('error')
OnConfirmationError(c, error) ==
    IF /\ c.confirmationOutcome = INITIAL
       /\ \/ c.sendOptions.confirmationType = Confirmed
          \/ c.hashOutcome = RESOLVED
    THEN Off([c EXCEPT !.confirmationOutcome = REJECTED,
                       !.confirmationPromise = Reject(@, error)])
    ELSE c

\* Variant: the threshold is compared with > instead of >=.
OnConfirmationStrict(c, confNumber, receipt) ==
    IF confNumber > c.sendOptions.confirmations /\ c.confirmationOutcome = INITIAL
    THEN Off([c EXCEPT !.confirmationOutcome = RESOLVED,
                       !.confirmationPromise = ResolveReceipt(@, receipt)])
    ELSE c

\* confirmation race, promi.on('confirmation')
OnConfirmation(c, confNumber, receipt) ==
    IF confNumber >= c.sendOptions.confirmations /\ c.confirmationOutcome = INITIAL
    THEN Off([c EXCEPT !.confirmationOutcome = RESOLVED,
                       !.confirmationPromise = ResolveReceipt(@, receipt)])
    ELSE c

\* confirmation race, promi.on('receipt'): no test of confirmationOutcome
OnReceipt(c, receipt) ==
    Off([c EXCEPT !.confirmationOutcome = RESOLVED,
                  !.confirmationPromise = ResolveReceipt(@, receipt)])

\* The transport signals of one transmission.
ErrorSignal(e) == [NoSignal EXCEPT !.event = "error", !.error = e]
HashSignal(h) == [NoSignal EXCEPT !.event = "transactionHash", !.hash = h]
ConfirmationSignal(n, r) ==
    [NoSignal EXCEPT !.event = "confirmation", !.confNumber = n, !.receipt = r]
ReceiptSignal(r) == [NoSignal EXCEPT !.event = "receipt", !.receipt = r]

Signals ==
    {ErrorSignal(e) : e \in Errors} \cup {HashSignal(h) : h \in Hashes}
    \cup {ConfirmationSignal(n, r) : n \in ConfNumbers, r \in Receipts}
    \cup {ReceiptSignal(r) : r \in Receipts}

\* emit(event, ...): every listener attached when the emission starts is
\* called, in the order of registration.
Emit(c, sig) ==
    LET L == c.listeners
        Run(name, d, after) == IF name \in L THEN after ELSE d
    IN  IF sig.event = "error"
        THEN LET c1 == Run("hashError", c, OnHashError(c, sig.error))
             IN  Run("confirmationError", c1, OnConfirmationError(c1, sig.error))
        ELSE IF sig.event = "transactionHash"
        THEN Run("transactionHash", c, OnTransactionHash(c, sig.hash))
        ELSE IF sig.event = "confirmation"
        THEN Run("confirmation", c, OnConfirmation(c, sig.confNumber, sig.receipt))
        ELSE Run("receipt", c, OnReceipt(c, sig.receipt))

\* ------------------------------------------------------------------- _send
\* Variant: the hash race listens for 'transactionHash' only.
ArmHashNoError(c) ==
    [c EXCEPT !.hashPromise = PendingPromise,
              !.listeners = @ \cup {"transactionHash"}]

\* new Promise(...) of the hash race: attaches its two listeners.
ArmHash(c) ==
    [c EXCEPT !.hashPromise = PendingPromise,
              !.listeners = @ \cup {"hashError", "transactionHash"}]

\* new Promise(...) of the confirmation race: attaches its listeners.
ArmConfirmation(c) ==
    [c EXCEPT !.confirmationPromise = PendingPromise,
              !.listeners = @ \cup {"confirmationError"} \cup
                  (IF ~Falsy(c.sendOptions.confirmations)
                   THEN {"confirmation"} ELSE {"receipt"})]

\* Variant: every mode but Confirmed returns {transactionHash, confirmation}.
AfterHashKeepsHandle(c) ==
    LET a == IF c.sendOptions.confirmationType \in {Confirmed, Both}
             THEN ArmConfirmation(c) ELSE c
    IN  IF c.sendOptions.confirmationType = Confirmed
        THEN [a EXCEPT !.pc = "awaitConfirmation"]
        ELSE [a EXCEPT !.pc = "returned",
                       !.result = [transactionHash |-> a.transactionHash,
                                   confirmation |->
                                     IF a.confirmationPromise.state # "none"
                                     THEN "confirmationPromise" ELSE "undefined"]]

\* _send from the end of the hash block to its return.
AfterHash(c) ==
    LET type == c.sendOptions.confirmationType
        a == IF type \in {Confirmed, Both} THEN ArmConfirmation(c) ELSE c
    IN  IF type = Hash
        THEN [a EXCEPT !.pc = "returned",
                       !.result = [transactionHash |-> a.transactionHash]]
        ELSE IF type = Confirmed
        THEN [a EXCEPT !.pc = "awaitConfirmation"]
        ELSE [a EXCEPT !.pc = "returned",
                       !.result = [transactionHash |-> a.transactionHash,
                                   confirmation |->
                                     IF a.confirmationPromise.state # "none"
                                     THEN "confirmationPromise" ELSE "undefined"]]

\* Variant: both races are set up at the broadcast.
MethodSendArmsBoth(c) ==
    LET b == [c EXCEPT !.methodSendCalls = @ + 1,
                       !.broadcastGas = c.txOptions.gas,
                       !.hashOutcome = INITIAL,
                       !.confirmationOutcome = INITIAL]
    IN  IF c.sendOptions.confirmationType = Both
        THEN [ArmConfirmation(ArmHash(b)) EXCEPT !.pc = "awaitHash"]
        ELSE IF c.sendOptions.confirmationType = Hash
        THEN [ArmHash(b) EXCEPT !.pc = "awaitHash"]
        ELSE AfterHash(b)

\* method.send(txOptions) and the synchronous code that follows it.
MethodSend(c) ==
    LET b == [c EXCEPT !.methodSendCalls = @ + 1,
                       !.broadcastGas = c.txOptions.gas,
                       !.hashOutcome = INITIAL,
                       !.confirmationOutcome = INITIAL]
    IN  IF c.sendOptions.confirmationType \in {Hash, Both}
        THEN [ArmHash(b) EXCEPT !.pc = "awaitHash"]
        ELSE AfterHash(b)

InvalidConfirmationType == "Invalid confirmation type"

\* Variant: gas is estimated only when no gas limit was given.
SendBeginGasOnly(c) ==
    IF c.sendOptions.confirmationType \notin ObjectValuesConfirmationType
    THEN [c EXCEPT !.pc = "failed", !.error.error = InvalidConfirmationType]
    ELSE IF Falsy(c.txOptions.gas)
    THEN [c EXCEPT !.pc = "estimating", !.estimateGasCalls = @ + 1]
    ELSE MethodSend(c)

\* _send from its entry to its first await.
SendBegin(c) ==
    LET type == c.sendOptions.confirmationType
    IN  IF type \notin ObjectValuesConfirmationType
        THEN [c EXCEPT !.pc = "failed", !.error.error = InvalidConfirmationType]
        ELSE IF type = Simulate \/ Falsy(c.txOptions.gas)
        THEN [c EXCEPT !.pc = "estimating", !.estimateGasCalls = @ + 1]
        ELSE MethodSend(c)

\* Math.floor(gasEstimate * gasMultiplier), gasMultiplier in tenths
FloorGas(gasEstimate, gasMultiplier) == (gasEstimate * gasMultiplier) \div 10

\* (result as TxResult).gasUsed
GasUsedOf(result) ==
    IF "gasUsed" \in DOMAIN result THEN result.gasUsed ELSE Undefined

\* Variant: the gas of test contracts is counted as well.
CountedWithTestContracts(c) ==
    /\ c.sendOptions.confirmationType \in {Confirmed, Both}
    /\ IsListed(c.target)

\* send(): the gas accounting done once _send has returned c.result
Counted(c) ==
    /\ c.sendOptions.confirmationType \in {Confirmed, Both}
    /\ IsListed(c.target)
    /\ ~IsTest(c.target)

\* The step that leaves the submission in c2.  returnsNow: _send returns its
\* result in this step, so send() runs its accounting.
Step(c2, returnsNow) ==
    /\ call' = c2
    /\ IF returnsNow /\ Counted(c2)
       THEN /\ cumulativeGasUsed' = Plus(cumulativeGasUsed, GasUsedOf(c2.result))
            /\ gasUsedByFunction' =
                 IF debugGasUsage
                 THEN Append(gasUsedByFunction,
                             [gasUsed |-> GasUsedOf(c2.result),
                              name |-> MethodName(c2.target)])
                 ELSE gasUsedByFunction
       ELSE UNCHANGED <<cumulativeGasUsed, gasUsedByFunction>>
    /\ confirmedGas' =
         IF /\ IsListed(c2.target) /\ ~IsTest(c2.target)
            /\ \/ returnsNow /\ c2.sendOptions.confirmationType = Confirmed
               \/ /\ c2.sendOptions.confirmationType = Both
                  /\ call.confirmationPromise.state = "pending"
                  /\ c2.confirmationPromise.state = "fulfilled"
         THEN confirmedGas + c2.confirmationPromise.receipt.gasUsed
         ELSE confirmedGas
    /\ UNCHANGED <<debugGasUsage, offDetaches>>
    /\ UNCHANGED logsVars

\* send(method, specificOptions), up to the first await of _send
Send(specificOptions, target) ==
    /\ call.pc \in {"idle", "returned", "failed"}
    /\ sends < MaxSends
    /\ sends' = sends + 1
    /\ LET so == Merge(defaultOptions, specificOptions)
           c0 == [IdleCall EXCEPT
                    !.specificOptions = specificOptions,
                    !.sendOptions = so,
                    !.target = target,
                    !.txOptions = [from |-> so.from, gasPrice |-> so.gasPrice,
                                   gas |-> so.gas, value |-> so.value]]
           c1 == SendBegin(c0)
       IN  Step(c1, c1.pc = "returned")
    /\ UNCHANGED defaultOptions

\* Variant: txOptions is the object of the caller, of send and of the
\* defaults, as if no copy were made on the way.
TxOptionsAliasesAll ==
    {"txOptions", "sendOptions", "specificOptions", "defaultOptions"}
\* The objects that `txOptions.gas = ...` writes to: txOptions is the rest
\* object of a destructuring of sendOptions, which send() builds by
\* spreading the defaults and the caller's options into a new object.
TxOptionsAliases == {"txOptions"}

\* { ...object, gas } written in place, when the object is txOptions
SetGas(object, name, gas) ==
    IF name \in TxOptionsAliases THEN Merge(object, [gas |-> gas]) ELSE object

\* await this.estimateGas(...) returns gasEstimate
EstimateGasReturns(gasEstimate) ==
    /\ call.pc = "estimating"
    /\ LET gas == FloorGas(gasEstimate, call.sendOptions.gasMultiplier)
           c1 == [call EXCEPT
                    !.txOptions = SetGas(@, "txOptions", gas),
                    !.sendOptions = SetGas(@, "sendOptions", gas),
                    !.specificOptions = SetGas(@, "specificOptions", gas)]
           c2 == IF call.sendOptions.confirmationType = Simulate
                 THEN [c1 EXCEPT !.pc = "returned",
                                 !.result = [gasEstimate |-> gasEstimate, gas |-> gas]]
                 ELSE MethodSend(c1)
       IN  /\ Step(c2, c2.pc = "returned")
           /\ defaultOptions' = SetGas(defaultOptions, "defaultOptions", gas)
    /\ UNCHANGED sends

\* Variant: the destination is read from txOptions, which has no `to`.
EstimateGasCatchNoTo(c, error) ==
    [error |-> error,
     transactionData |-> [from |-> c.txOptions.from,
                          value |-> c.txOptions.value,
                          data |-> EncodeABI(c.target),
                          to |-> "undefined"]]

\* estimateGas(), catch block: the error is rethrown with transactionData
EstimateGasCatch(c, error) ==
    [error |-> error,
     transactionData |-> [from |-> c.txOptions.from,
                          value |-> c.txOptions.value,
                          data |-> EncodeABI(c.target),
                          to |-> AddressOf(c.target)]]

\* method.estimateGas rejects with error; _send and send propagate what
\* estimateGas throws
EstimateGasThrows(error) ==
    /\ call.pc = "estimating"
    /\ Step([call EXCEPT !.pc = "failed",
                         !.error = EstimateGasCatch(call, error),
                         !.estimateGasRejection = error],
            FALSE)
    /\ UNCHANGED <<sends, defaultOptions>>

\* The transport emits a signal on the PromiEvent of the transmission;
\* `seen` is what the history field lastSignal keeps of it.
Deliver(sig, seen) ==
    /\ call.methodSendCalls > 0
    /\ LET c2 == [Emit(call, sig) EXCEPT !.lastSignal = seen]
       IN  Step(c2, FALSE)
    /\ UNCHANGED <<sends, defaultOptions>>

Signal(sig) == Deliver(sig, NoSignal)

\* The same step, with the signal recorded; seq alternates so that two equal
\* signals in a row are two visible steps.
TracedSignal(sig) ==
    Deliver(sig, [sig EXCEPT !.seq = 1 - call.lastSignal.seq])

\* transactionHash = await hashPromise, and the rest of _send
ResumeAfterHash ==
    /\ call.pc = "awaitHash"
    /\ call.hashPromise.state # "pending"
    /\ LET c2 == IF call.hashPromise.state = "rejected"
                 THEN [call EXCEPT !.pc = "failed",
                                   !.error.error = call.hashPromise.error]
                 ELSE AfterHash([call EXCEPT !.transactionHash = call.hashPromise.hash])
       IN  Step(c2, c2.pc = "returned")
    /\ UNCHANGED <<sends, defaultOptions>>

\* Confirmed: send() awaits the confirmationPromise that _send returned
ResumeAfterConfirmation ==
    /\ call.pc = "awaitConfirmation"
    /\ call.confirmationPromise.state # "pending"
    /\ LET c2 == IF call.confirmationPromise.state = "rejected"
                 THEN [call EXCEPT !.pc = "failed",
                                   !.error.error = call.confirmationPromise.error]
                 ELSE [call EXCEPT !.pc = "returned",
                                   !.result = call.confirmationPromise.receipt]
       IN  Step(c2, c2.pc = "returned")
    /\ UNCHANGED <<sends, defaultOptions>>

\* resetGasUsed()
ResetGasUsedTotalOnly ==
    /\ cumulativeGasUsed' = 0
    /\ confirmedGas' = 0
    /\ UNCHANGED <<defaultOptions, debugGasUsage, offDetaches, sends, call,
                   gasUsedByFunction>>
    /\ UNCHANGED logsVars
ResetGasUsed ==
    /\ cumulativeGasUsed' = 0
    /\ gasUsedByFunction' = <<>>
    /\ confirmedGas' = 0
    /\ UNCHANGED <<defaultOptions, debugGasUsage, offDetaches, sends, call>>
    /\ UNCHANGED logsVars

Next ==
    \/ \E o \in SpecificOptionsInputs, t \in Targets : Send(o, t)
    \/ \E g \in GasEstimates : EstimateGasReturns(g)
    \/ \E e \in Errors : EstimateGasThrows(e)
    \/ \E sig \in Signals : Signal(sig)
    \/ ResumeAfterHash
    \/ ResumeAfterConfirmation
    \/ ResetGasUsed

Spec == Init /\ [][Next]_vars

\* One submission observed signal by signal: the first send of a session,
\* with every transport signal recorded in call.lastSignal.
SendFirst(specificOptions, target) ==
    /\ sends = 0
    /\ Send(specificOptions, target)

NextRace ==
    \/ \E o \in SpecificOptionsInputs, t \in Targets : SendFirst(o, t)
    \/ \E g \in GasEstimates : EstimateGasReturns(g)
    \/ \E e \in Errors : EstimateGasThrows(e)
    \/ \E sig \in Signals : TracedSignal(sig)
    \/ ResumeAfterHash
    \/ ResumeAfterConfirmation
    \/ ResetGasUsed

SpecRace == Init /\ [][NextRace]_vars

\* ------------------------------------------------------------ log decoding
\* lib/BytesHelper addressesAreEqual: false for a missing address, else a
\* comparison that ignores case.
addressesAreEqual(addressOne, addressTwo) ==
    /\ addressOne # UndefinedAddress
    /\ addressTwo # UndefinedAddress
    /\ ToLowerCase(addressOne) = ToLowerCase(addressTwo)

\* The loop of the contractsByAddress getter from entry i on: the registry
\* it leaves in _contractsByAddress and the error it throws, if any.
RECURSIVE buildContractsByAddress(_, _)
buildContractsByAddress(i, byAddress) ==
    IF i > Len(contractsList)
    THEN [threw |-> "", registry |-> [defined |-> TRUE, byAddress |-> byAddress]]
    ELSE LET contract == contractsList[i]
         IN  IF IsTest(contract)
             THEN buildContractsByAddress(i + 1, byAddress)
             ELSE IF options[contract] = UndefinedAddress
             THEN [threw |-> "Contract has not been deployed",
                   registry |-> [defined |-> TRUE, byAddress |-> byAddress]]
             ELSE buildContractsByAddress(
                      i + 1,
                      Merge(byAddress,
                            (ToLowerCase(options[contract]) :> contract)))

\* get contractsByAddress()
contractsByAddress(registry) ==
    IF ~registry.defined THEN buildContractsByAddress(1, <<>>)
    ELSE [threw |-> "", registry |-> registry]

\* const name = value; body: the value is computed once and then read.
Let(value, body(_)) == body(value)

\* Logs.parseLogWithContract
parseLogWithContract(contract, log) ==
    LET events == SelectSeq(jsonInterface(contract),
                            LAMBDA e : e.type = "event")
        matching == SelectSeq(events,
                              LAMBDA e : ToLowerCase(e.signature)
                                           = ToLowerCase(log.topics[1]))
    IN  IF matching = <<>> THEN Return("null", Null)
        ELSE LET eventJson == Head(matching)
                 eventArgs == decodeLog(eventJson.inputs, log.data,
                                        Tail(log.topics))
             IN  Let(parseArgs(eventJson.inputs, eventArgs),
                     LAMBDA args :
                         IF args.threw # "" THEN args
                         ELSE Return("ParsedLog",
                                     Merge(log, [name |-> eventJson.name,
                                                 args |-> args.value])))

\* Logs.parseLog: what it returns or throws, and the registry it leaves.
Leaving(returned, registry) ==
    [threw |-> returned.threw, kind |-> returned.kind,
     value |-> returned.value, registry |-> registry]
parseLog(log, registry) ==
    LET logAddress == ToLowerCase(log.address)
    IN  Let(IF addressesAreEqual(logAddress, options["perpetualProxy"])
            THEN parseLogWithContract("perpetualProxy", log)
            ELSE Return("null", Null),
            LAMBDA parsedLog :
                IF parsedLog.threw # "" \/ parsedLog.kind # "null"
                THEN Leaving(parsedLog, registry)
                ELSE LET got == contractsByAddress(registry)
                     IN  IF got.threw # ""
                         THEN Leaving(Throw(got.threw), got.registry)
                         ELSE IF logAddress \in DOMAIN got.registry.byAddress
                         THEN Leaving(parseLogWithContract(
                                          got.registry.byAddress[logAddress],
                                          log),
                                      got.registry)
                         ELSE Leaving(Return("null", Null), got.registry))

\* Logs.parseEvent
parseEvent(event) ==
    [address |-> event.address, data |-> event.raw.data,
     topics |-> event.raw.topics, logIndex |-> event.logIndex]

\* events.map(e => this.parseLog(e)).filter(l => !!l), from entry i on
RECURSIVE mapParseLog(_, _, _, _)
mapParseLog(events, i, registry, parsedLogs) ==
    IF i > Len(events)
    THEN [threw |-> "", result |-> parsedLogs, registry |-> registry]
    ELSE Let(parseLog(events[i], registry),
             LAMBDA parsed :
                 IF parsed.threw # ""
                 THEN [threw |-> parsed.threw, result |-> <<>>,
                       registry |-> parsed.registry]
                 ELSE mapParseLog(events, i + 1, parsed.registry,
                                  IF parsed.kind = "null" THEN parsedLogs
                                  ELSE Append(parsedLogs, parsed.value)))

\* A receipt field that is missing, or present with its entries.
Missing == [present |-> FALSE, items |-> <<>>]
Present(items) == [present |-> TRUE, items |-> items]
\* A value of receipt.events: one event, or the array of the emissions.
Single(event) == [isArray |-> FALSE, items |-> <<event>>]
Array(events) == [isArray |-> TRUE, items |-> events]

\* Object.values(tempEvents).forEach(...): arrays are spread
RECURSIVE flatten(_)
flatten(values) ==
    IF values = <<>> THEN <<>>
    ELSE LET e == values[Len(values)]
             events == flatten(SubSeq(values, 1, Len(values) - 1))
         IN  IF e.isArray THEN events \o e.items
             ELSE Append(events, e.items[1])

\* events.sort((a, b) => a.logIndex - b.logIndex)
insert(sorted, e) ==
    LET before == SelectSeq(sorted, LAMBDA a : a.logIndex <= e.logIndex)
        after == SelectSeq(sorted, LAMBDA a : a.logIndex > e.logIndex)
    IN  before \o <<e>> \o after
RECURSIVE sort(_)
sort(events) ==
    IF events = <<>> THEN <<>>
    ELSE insert(sort(SubSeq(events, 1, Len(events) - 1)), events[Len(events)])

\* Variant: a receipt without logs and events gives an empty list.
parseLogsOrEmpty(receipt, registry) ==
    IF receipt.logs.present
    THEN mapParseLog(receipt.logs.items, 1, registry, <<>>)
    ELSE IF receipt.events.present
    THEN LET events == sort(flatten(receipt.events.items))
         IN  mapParseLog([i \in DOMAIN events |-> parseEvent(events[i])],
                         1, registry, <<>>)
    ELSE [threw |-> "", result |-> <<>>, registry |-> registry]

\* Logs.parseLogs
parseLogsUnsorted(receipt, registry) ==
    IF receipt.logs.present
    THEN mapParseLog(receipt.logs.items, 1, registry, <<>>)
    ELSE IF receipt.events.present
    THEN LET events == flatten(receipt.events.items)
         IN  mapParseLog([i \in DOMAIN events |-> parseEvent(events[i])],
                         1, registry, <<>>)
    ELSE [threw |-> "Receipt has no logs", result |-> <<>>,
          registry |-> registry]
parseLogs(receipt, registry) ==
    IF receipt.logs.present
    THEN mapParseLog(receipt.logs.items, 1, registry, <<>>)
    ELSE IF receipt.events.present
    THEN LET events == sort(flatten(receipt.events.items))
         IN  mapParseLog([i \in DOMAIN events |-> parseEvent(events[i])],
                         1, registry, <<>>)
    ELSE [threw |-> "Receipt has no logs", result |-> <<>>,
          registry |-> registry]

\* Receipts: the emissions a node may report, as a list of logs or as a map
\* of events.  Addresses are those of the deployment tables, and 99 for a
\* contract that is none of this client's.
Emissions ==
    {<<11, "checksum", 3>>, <<11, "lower", 2>>, <<11, "lower", 4>>,
     <<21, "checksum", 3>>, <<38, "checksum", 7>>, <<99, "checksum", 3>>}
EventPool ==
    {EventLog(RawLog(11, "checksum", 3, 5)), EventLog(RawLog(15, "lower", 5, 2)),
     EventLog(RawLog(99, "checksum", 3, 7))}
Injective(q) == \A i, j \in DOMAIN q : q[i] = q[j] => i = j
SeqsUpTo(S, n) == UNION {[1..k -> S] : k \in 0..n}
LogLists ==
    {[i \in DOMAIN q |-> RawLog(q[i][1], q[i][2], q[i][3], i)] :
        q \in {q \in SeqsUpTo(Emissions, MaxLogs) : Injective(q)}}
EventMaps ==
    LET arrays == {q \in SeqsUpTo(EventPool, MaxLogs) : Injective(q)}
        values == {Single(e) : e \in EventPool} \cup {Array(q) : q \in arrays}
    IN  {m \in SeqsUpTo(values, 2) :
            Injective(flatten(m)) /\ Len(flatten(m)) <= MaxLogs}
ReceiptInputs ==
    {[logs |-> Present(l), events |-> Missing] : l \in LogLists}
      \cup {[logs |-> Missing, events |-> Present(m)] : m \in EventMaps}
      \cup {[logs |-> Present(l), events |-> Present(<<Single(e)>>)] :
               l \in {l \in LogLists : Len(l) <= 1}, e \in EventPool}
      \cup {[logs |-> Missing, events |-> Missing]}

\* Contracts.setProvider(provider, networkId)
SetProvider(networkId) ==
    /\ options' = setProvider(networkId)
    /\ decoded' = [op |-> "setProvider", networkId |-> networkId, threw |-> ""]
    /\ UNCHANGED _contractsByAddress
    /\ UNCHANGED sendVars

\* Logs.parseLogs(receipt)
ParseLogs(receipt) ==
    \E parsed \in {parseLogs(receipt, _contractsByAddress)} :
        /\ decoded' = [op |-> "parseLogs", receipt |-> receipt,
                       threw |-> parsed.threw, result |-> parsed.result]
        /\ _contractsByAddress' = parsed.registry
        /\ UNCHANGED options
        /\ UNCHANGED sendVars

NextLogs ==
    \/ \E networkId \in NetworkIds : SetProvider(networkId)
    \/ \E receipt \in ReceiptInputs : ParseLogs(receipt)

\* The logs and events a node attaches to the receipt of a transaction.
AttachedInputs ==
    {[logs |-> <<>>], [logs |-> <<RawLog(11, "checksum", 3, 1)>>],
     [events |-> <<Single(EventLog(RawLog(11, "checksum", 3, 5)))>>]}
\* receipt.logs and receipt.events of a value that send resolved to
TxResult(result) ==
    [logs |-> IF "logs" \in DOMAIN result THEN Present(result.logs)
              ELSE Missing,
     events |-> IF "events" \in DOMAIN result THEN Present(result.events)
                ELSE Missing]

\* logs.parseLogs(await contracts.send(...)): the value send resolved to is
\* handed to parseLogs; a receipt comes with what the node attached to it.
ParseLogsOfResult(attached) ==
    /\ call.pc = "returned"
    /\ ParseLogs(TxResult(IF call.result \in Receipts
                          THEN Merge(call.result, attached)
                          ELSE call.result))

\* One submission, and the decoding of its outcome.
NextOutcome ==
    \/ \E o \in SpecificOptionsInputs, t \in Targets : SendFirst(o, t)
    \/ \E g \in GasEstimates : EstimateGasReturns(g)
    \/ \E e \in Errors : EstimateGasThrows(e)
    \/ \E sig \in Signals : Signal(sig)
    \/ ResumeAfterHash
    \/ ResumeAfterConfirmation
    \/ \E attached \in AttachedInputs : ParseLogsOfResult(attached)

SpecOutcome == Init /\ [][NextOutcome]_vars

\* Decoding takes no part in the gas accounting and the listeners.
InitLogs == Init /\ ~debugGasUsage /\ ~offDetaches
SpecLogs == InitLogs /\ [][NextLogs]_vars

\* ------------------------------------------------------- value decoding
\* Declared inputs of events and the raw values decodeLog hands over for
\* them.
TypeInputs ==
    {bytes32, bytes4, bytes, uint256, uint32, uint, int256, int8, int,
     address, bool, string, uint256Array}
NameInputs ==
    {"amount", "fee", "price", "oraclePrice", "balance", "index", "flags",
     "fundingRate", "account"}
\* 32-byte words: balances, an index (timestamp, sign, value) and flags.
WordInputs(name) ==
    IF name = "balance"
    THEN {PackBalance(toSolidity(Balance(BigNumber(0 - 3), BigNumber(4)))),
          PackBalance(toSolidity(Balance(BigNumber(0), BigNumber(0 - 1))))}
    ELSE IF name \in {"index", "fundingRate"}
    THEN {<<0, X>> \o PadStart(<<6, 1>>, 30) \o <<0, s>> \o PadStart(<<2>>, 32) :
            s \in {0, 1}}
    ELSE {<<0, X>> \o PadStart(<<5>>, 64), <<0, X>> \o PadStart(<<1, 2>>, 64)}
ArgValues(input) ==
    IF input.type = tuple
    THEN {[amount |-> DecimalString(7), price |-> DecimalString(2),
           fee |-> DecimalString(1), isNegativeFee |-> b] : b \in BOOLEAN}
    ELSE IF input.type = bytes32 THEN WordInputs(input.name)
    ELSE IF input.type \in {bytes4, bytes}
    THEN {<<0, X, 10, 11>>, <<0, X, 1, 2>>}
    ELSE IF input.type \in {uint256, uint32, uint}
    THEN {DecimalString(0), DecimalString(7)}
    ELSE IF input.type \in {int256, int8, int}
    THEN {DecimalString(7), [minus |-> TRUE, digits |-> <<3>>]}
    ELSE IF input.type = address
    THEN {Hex(11, "checksum"), Hex(99, "lower")}
    ELSE IF input.type = bool THEN BOOLEAN
    ELSE IF input.type = string THEN {<<"o", "k">>, <<>>}
    ELSE {<<DecimalString(7)>>, <<>>}

\* Logs.parseValue(input, argValue)
ParseValue(input, argValue) ==
    LET parsed == parseValue(input, argValue)
    IN  /\ decoded' = [op |-> "parseValue", input |-> input,
                       argValue |-> argValue, threw |-> parsed.threw,
                       kind |-> parsed.kind, value |-> parsed.value]
        /\ UNCHANGED <<options, _contractsByAddress>>
        /\ UNCHANGED sendVars

\* Balances with magnitudes in the low, the second and the eighth hex digit.
Magnitudes ==
    {m * scale : m \in 0..MaxMagnitude, scale \in {1, 16, 268435456}}
BigNumbers == [neg : BOOLEAN, abs : Magnitudes]
Balances == [margin : BigNumbers, position : BigNumbers]

\* balance.toSolidity()
ToSolidity(balance) ==
    /\ decoded' = [op |-> "toSolidity", balance |-> balance,
                   struct |-> toSolidity(balance)]
    /\ UNCHANGED <<options, _contractsByAddress>>
    /\ UNCHANGED sendVars

\* Balance.fromSolidity(struct) of the struct just encoded
FromSolidity ==
    /\ decoded.op = "toSolidity"
    /\ decoded' = [op |-> "fromSolidity", balance |-> decoded.balance,
                   struct |-> decoded.struct,
                   result |-> fromSolidity(decoded.struct)]
    /\ UNCHANGED <<options, _contractsByAddress>>
    /\ UNCHANGED sendVars

\* Logs.parseBalance of the word the contract logs for the struct just
\* encoded
ParseBalance ==
    /\ decoded.op = "toSolidity"
    /\ LET word == PackBalance(decoded.struct)
       IN  decoded' = [op |-> "parseBalance", balance |-> decoded.balance,
                       struct |-> decoded.struct, word |-> word,
                       result |-> parseBalance(word)]
    /\ UNCHANGED <<options, _contractsByAddress>>
    /\ UNCHANGED sendVars

\* Lists of logs of P1Orders: LogOrderFilled, and the events with a struct
\* argument.
TupleEmissions ==
    {<<15, "checksum", 40 + i>> : i \in DOMAIN TupleInputList}
      \cup {<<15, "lower", 5>>}
TupleLogLists ==
    {[i \in DOMAIN q |-> RawLog(q[i][1], q[i][2], q[i][3], i)] :
        q \in {q \in SeqsUpTo(TupleEmissions, MaxLogs) :
                 q # <<>> /\ Injective(q)}}

NextCodec ==
    \/ \E type \in TypeInputs, name \in NameInputs :
         \E argValue \in ArgValues(AbiInput(type, name)) :
            ParseValue(AbiInput(type, name), argValue)
    \/ \E input \in TupleInputs :
         \E argValue \in ArgValues(input) : ParseValue(input, argValue)
    \/ \E balance \in Balances : ToSolidity(balance)
    \/ FromSolidity
    \/ ParseBalance
    \/ \E logs \in TupleLogLists :
         ParseLogs([logs |-> Present(logs), events |-> Missing])

SpecCodec == InitLogs /\ [][NextCodec]_vars

\* ------------------------------------------------------------- properties
type == call.sendOptions.confirmationType
Broadcast == call.methodSendCalls > 0

\* A transport signal is delivered in this step (SpecRace).
Delivered == call'.lastSignal # call.lastSignal

\* The confirmation race has been set up: its promise exists and its
\* listeners have been attached.
Armed == call.confirmationPromise.state # "none"

\* C1: each race is one-shot: an outcome that has left INITIAL never changes
\* again, whatever signal the transport delivers afterwards.
C1_OneShot ==
    [][/\ call.hashOutcome # INITIAL => call'.hashOutcome = call.hashOutcome
       /\ call.confirmationOutcome # INITIAL
            => call'.confirmationOutcome = call.confirmationOutcome]_vars

\* C2: the value send resolves to has exactly the fields of the variant of
\* its confirmation type: Hash {transactionHash}, Confirmed the receipt,
\* Both {transactionHash, confirmation}, Simulate {gasEstimate, gas}.
C2_OutcomeShape ==
    call.pc = "returned" =>
        /\ type = Hash => DOMAIN call.result = {"transactionHash"}
        /\ type = Confirmed => call.result \in Receipts
        /\ type = Both =>
             /\ DOMAIN call.result = {"transactionHash", "confirmation"}
             /\ call.result.confirmation = "confirmationPromise"
        /\ type = Simulate => DOMAIN call.result = {"gasEstimate", "gas"}

C2_Witness ==
    /\ call.pc = "returned"
    /\ type = Both
    /\ call.result.transactionHash \in Hashes
    /\ sends = 2

\* C3: a confirmationType outside Hash(0), Confirmed(1), Both(2), Simulate(3)
\* makes send fail with the invalid-confirmation-type error before
\* estimateGas or method.send is called.
C3_InvalidTypeRejected ==
    (call.pc # "idle" /\ type \notin {Hash, Confirmed, Both, Simulate}) =>
        /\ call.pc = "failed"
        /\ call.error.error = InvalidConfirmationType
        /\ call.estimateGasCalls = 0
        /\ call.methodSendCalls = 0

\* C4: whenever no send is running, the running total equals the sum of the
\* gasUsed of the receipts confirmed (Confirmed or Both mode, contract not a
\* test contract) since the last reset.
C4_GasTotalIsSum ==
    call.pc \in {"idle", "returned", "failed"} => cumulativeGasUsed = confirmedGas

\* C5: a Simulate send makes exactly one estimateGas call and no method.send
\* call, and returns {gasEstimate, gas} with gas = floor(gasEstimate * gasMultiplier).
C5_SimulateNeverBroadcasts ==
    (call.pc # "idle" /\ type = Simulate) =>
        /\ call.estimateGasCalls = 1
        /\ call.methodSendCalls = 0
        /\ call.pc \in {"estimating", "returned", "failed"}
        /\ call.pc = "returned" =>
             /\ DOMAIN call.result = {"gasEstimate", "gas"}
             /\ call.result.gasEstimate \in GasEstimates
             /\ 10 * call.result.gas <=
                  call.result.gasEstimate * call.sendOptions.gasMultiplier
             /\ call.result.gasEstimate * call.sendOptions.gasMultiplier <
                  10 * (call.result.gas + 1)

C5_Witness ==
    /\ call.pc = "returned"
    /\ type = Simulate
    /\ call.sendOptions.gas = 9
    /\ call.result = [gasEstimate |-> 5, gas |-> 7]

\* C6: once the confirmation race has resolved with a receipt it stays
\* resolved with that receipt: no later signal (an error in particular) turns
\* the race, the confirmation promise or the result of a Confirmed send into
\* a rejection.
C6_ResolvedStaysResolved ==
    /\ [][(/\ call.confirmationOutcome = RESOLVED
           /\ call.confirmationPromise.state = "fulfilled")
          => /\ call'.confirmationOutcome = RESOLVED
             /\ call'.confirmationPromise = call.confirmationPromise
             /\ call'.pc # "failed"
             /\ call.pc = "returned" => call'.result = call.result]_vars
    /\ []((type = Confirmed /\ call.pc = "returned")
          => call.result = call.confirmationPromise.receipt)

C6_Witness ==
    /\ call.lastSignal.event = "error"
    /\ "confirmationError" \in call.listeners
    /\ call.confirmationOutcome = RESOLVED
    /\ call.confirmationPromise.state = "fulfilled"
    /\ call.confirmationPromise.receipt \in Receipts

\* C7: in Hash mode the hash promise is settled by the first transactionHash
\* or error signal, whichever the transport delivers first, with the hash or
\* error that signal carries; send returns exactly that hash or fails with
\* exactly that error, and nothing delivered later changes either.
C7_HashMode ==
    /\ [][(type = Hash /\ Broadcast) =>
            /\ (/\ Delivered
                /\ call.hashOutcome = INITIAL
                /\ call'.lastSignal.event = "transactionHash")
               => /\ call'.hashPromise.state = "fulfilled"
                  /\ call'.hashPromise.hash = call'.lastSignal.hash
            /\ (/\ Delivered
                /\ call.hashOutcome = INITIAL
                /\ call'.lastSignal.event = "error")
               => /\ call'.hashPromise.state = "rejected"
                  /\ call'.hashPromise.error = call'.lastSignal.error
            /\ call.hashPromise.state \in {"fulfilled", "rejected"}
               => call'.hashPromise = call.hashPromise
            /\ call.pc \in {"returned", "failed"}
               => /\ call'.pc = call.pc
                  /\ call'.result = call.result
                  /\ call'.error = call.error]_vars
    /\ []((type = Hash /\ Broadcast) =>
            /\ call.pc = "returned"
               => /\ call.hashPromise.state = "fulfilled"
                  /\ call.result = [transactionHash |-> call.hashPromise.hash]
            /\ call.pc = "failed"
               => /\ call.hashPromise.state = "rejected"
                  /\ call.error = [NoError EXCEPT !.error = call.hashPromise.error])

C7_Witness ==
    /\ type = Hash
    /\ call.pc = "returned"
    /\ call.result.transactionHash \in Hashes
    /\ call.lastSignal.event = "error"
    /\ "hashError" \in call.listeners

\* C8: with a minimum confirmation count N > 0 the confirmation race, armed
\* and Pending, resolves at the first confirmation signal whose count is
\* >= N, with the receipt of that signal, and stays Pending at a confirmation
\* signal with a smaller count and at a receipt signal; with N = 0 it
\* resolves at the first receipt signal, with its receipt.
C8_Threshold ==
    [][(/\ Delivered
        /\ Armed
        /\ type \in {Confirmed, Both}
        /\ call.confirmationOutcome = INITIAL)
       => LET N == call.sendOptions.confirmations
              s == call'.lastSignal
              ResolvedWith(r) ==
                  /\ call'.confirmationOutcome = RESOLVED
                  /\ call'.confirmationPromise.state = "fulfilled"
                  /\ call'.confirmationPromise.receipt = r
          IN  /\ (N > 0 /\ s.event = "confirmation" /\ s.confNumber >= N)
                    => ResolvedWith(s.receipt)
              /\ (N > 0 /\ s.event = "confirmation" /\ s.confNumber < N)
                    => call'.confirmationOutcome = INITIAL
              /\ (N > 0 /\ s.event = "receipt")
                    => call'.confirmationOutcome = INITIAL
              /\ (N = 0 /\ s.event = "receipt")
                    => ResolvedWith(s.receipt)]_vars

C8_Witness ==
    /\ call.sendOptions.confirmations = 2
    /\ call.lastSignal.event = "confirmation"
    /\ call.lastSignal.confNumber = 2
    /\ call.confirmationOutcome = RESOLVED
    /\ call.confirmationPromise.state = "fulfilled"
    /\ call.confirmationPromise.receipt = call.lastSignal.receipt

\* C9: in Both mode an error delivered while the hash race is Pending rejects
\* the hash race (send fails with it, returns nothing, the confirmation race
\* is left alone) and an error delivered after the hash race resolved, to
\* the armed and Pending confirmation race, rejects the confirmation handle
\* only, the returned transactionHash staying as it is; in Confirmed mode an
\* error delivered while the confirmation race is Pending rejects it.
C9_DualOutcome ==
    /\ [][(Delivered /\ Broadcast /\ call'.lastSignal.event = "error")
          => LET e == call'.lastSignal.error
                 ConfirmationRejected ==
                     /\ call'.confirmationOutcome = REJECTED
                     /\ call'.confirmationPromise.state = "rejected"
                     /\ call'.confirmationPromise.error = e
             IN  /\ (type = Both /\ call.hashOutcome = INITIAL)
                    => /\ call'.hashOutcome = REJECTED
                       /\ call'.hashPromise.state = "rejected"
                       /\ call'.hashPromise.error = e
                       /\ call'.confirmationOutcome = INITIAL
                       /\ call'.confirmationPromise = NoPromise
                 /\ (/\ type = Both
                     /\ call.hashOutcome = RESOLVED
                     /\ Armed
                     /\ call.confirmationOutcome = INITIAL)
                    => /\ ConfirmationRejected
                       /\ call'.hashOutcome = RESOLVED
                       /\ call'.hashPromise = call.hashPromise
                       /\ call'.pc = "returned"
                       /\ call'.result = call.result
                 /\ (type = Confirmed /\ call.confirmationOutcome = INITIAL)
                    => ConfirmationRejected]_vars
    /\ []((type = Both /\ call.hashPromise.state = "rejected")
          => /\ call.pc \in {"awaitHash", "failed"}
             /\ call.result = NoResult
             /\ call.pc = "failed"
                => call.error = [NoError EXCEPT !.error = call.hashPromise.error])
    /\ []((type = Both /\ call.pc = "returned")
          => call.result.transactionHash = call.hashPromise.hash)

C9_Witness ==
    /\ type = Both
    /\ call.pc = "returned"
    /\ call.lastSignal.event = "error"
    /\ call.hashOutcome = RESOLVED
    /\ call.result.transactionHash \in Hashes
    /\ call.confirmationOutcome = REJECTED
    /\ call.confirmationPromise.state = "rejected"
    /\ call.confirmationPromise.error = call.lastSignal.error

\* C10: when method.estimateGas fails, send fails with that error carrying
\* transactionData {from, value, data, to}; the gas limit is left as the
\* caller gave it, nothing is broadcast and estimateGas is not called again.
C10_EstimateFailure ==
    call.estimateGasRejection # "" =>
            /\ call.pc = "failed"
            /\ call.error.error = call.estimateGasRejection
            /\ call.error.transactionData =
                 [from |-> call.sendOptions.from,
                  value |-> call.sendOptions.value,
                  data |-> EncodeABI(call.target),
                  to |-> AddressOf(call.target)]
            /\ call.txOptions.gas = call.sendOptions.gas
            /\ call.estimateGasCalls = 1
            /\ call.methodSendCalls = 0
            /\ call.broadcastGas = Undefined
            /\ call.result = NoResult

C10_Witness ==
    /\ call.pc = "failed"
    /\ call.estimateGasRejection = "E2"
    /\ call.target = "erc20"
    /\ call.error.transactionData.to = "0xbb"

\* ---------------------------------------------- properties: log decoding
\* The last call was parseLogs on a receipt with a list of logs.
ParsedLogList == decoded.op = "parseLogs" /\ decoded.receipt.logs.present
LogsOf(receipt) == receipt.logs.items

\* No contract of this client is configured at the address.
UnknownAddress(a) ==
    \A contract \in ContractNames : ~addressesAreEqual(a, options[contract])
\* The ABI of the contract declares an event with the signature of the log.
Recognizes(contract, log) ==
    \E i \in DOMAIN jsonInterface(contract) :
        ToLowerCase(jsonInterface(contract)[i].signature)
          = ToLowerCase(log.topics[1])
\* The log comes from a deployed contract whose ABI declares its event.
Decodable(log) ==
    \E contract \in ContractNames :
        /\ ~IsTest(contract)
        /\ addressesAreEqual(log.address, options[contract])
        /\ Recognizes(contract, log)

\* C11: parseLogs on logs whose addresses match no known contract returns
\* without throwing and drops every one of them, in every deployment and
\* registry state, the call that builds the registry included.
C11_UnknownLogAbsent ==
    (ParsedLogList
       /\ \A i \in DOMAIN LogsOf(decoded.receipt) :
             UnknownAddress(LogsOf(decoded.receipt)[i].address))
      => decoded.threw = "" /\ decoded.result = <<>>

\* C12: a contract without a deployment on the selected network raises no
\* error, neither when setProvider configures the contracts nor when the
\* first decoding builds the registry, and every log of a deployed contract
\* whose ABI declares its event is still decoded.
C12_UndeployedTolerated ==
    /\ decoded.op = "setProvider" => decoded.threw = ""
    /\ decoded.op = "parseLogs"
         => decoded.threw # "Contract has not been deployed"
    /\ ParsedLogList
         => \A i \in DOMAIN LogsOf(decoded.receipt) :
               Decodable(LogsOf(decoded.receipt)[i])
                 => \E j \in DOMAIN decoded.result :
                       decoded.result[j].logIndex
                         = LogsOf(decoded.receipt)[i].logIndex

\* The non-test contracts that have an address in the present configuration,
\* and the mapping from their addresses: the last listed contract wins.
Registered ==
    {contract \in ContractNames :
        ~IsTest(contract) /\ options[contract] # UndefinedAddress}
FreshByAddress ==
    [a \in {ToLowerCase(options[contract]) : contract \in Registered} |->
        LET at == {IndexOf(contract) : contract \in
                     {c \in Registered : ToLowerCase(options[c]) = a}}
        IN  contractsList[CHOOSE i \in at : \A j \in at : j <= i]]
AllDeployed == \A contract \in ContractNames : contract \in Registered \/ IsTest(contract)

\* C13: the address->contract mapping is built once per configuration:
\* while the configuration stays the same, a mapping that exists is reused
\* unchanged, and whenever a decoding call has returned, the mapping it used
\* is the one of the addresses of the network selected by the last
\* setProvider.
C13_RegistryPerConfiguration ==
    /\ [][(_contractsByAddress.defined /\ options' = options)
            => _contractsByAddress' = _contractsByAddress]_vars
    /\ []((decoded.op = "parseLogs" /\ decoded.threw = ""
             /\ _contractsByAddress.defined /\ AllDeployed)
            => _contractsByAddress.byAddress = FreshByAddress)

\* The name under which the ABI of the contract declares the event of the log.
EventName(contract, log) ==
    LET abi == jsonInterface(contract)
        i == CHOOSE i \in DOMAIN abi :
                 /\ ToLowerCase(abi[i].signature) = ToLowerCase(log.topics[1])
                 /\ \A j \in 1..(i - 1) :
                       ToLowerCase(abi[j].signature) # ToLowerCase(log.topics[1])
    IN  abi[i].name
\* The last call decoded one log, emitted from the address that the proxy
\* and its implementation share.
SharedAddressLog ==
    /\ ParsedLogList
    /\ Len(LogsOf(decoded.receipt)) = 1
    /\ addressesAreEqual(LogsOf(decoded.receipt)[1].address,
                         options["perpetualProxy"])
Returned == decoded.threw = ""

\* C14: a log from the shared address is decoded with the proxy's ABI
\* whenever that ABI declares its event, with the ABI of PerpetualV1 only if
\* the proxy's does not, and dropped only if neither ABI declares it.
C14_ProxyFirst ==
    SharedAddressLog =>
      LET log == LogsOf(decoded.receipt)[1]
          proxy == Recognizes("perpetualProxy", log)
          implementation == Recognizes("perpetualV1", log)
      IN  /\ proxy => /\ Returned
                      /\ Len(decoded.result) = 1
                      /\ decoded.result[1].name = EventName("perpetualProxy", log)
          /\ (Returned /\ decoded.result # <<>> /\ ~proxy)
               => /\ implementation
                  /\ decoded.result[1].name = EventName("perpetualV1", log)
          /\ (Returned /\ decoded.result = <<>>) => ~proxy /\ ~implementation

\* The last call was parseLogs on a receipt with only a map of events, and
\* it returned.
ParsedEventMap ==
    /\ decoded.op = "parseLogs"
    /\ ~decoded.receipt.logs.present
    /\ decoded.receipt.events.present
    /\ Returned
\* Every emission of the map: the single events and the members of the lists.
EmissionsOf(receipt) ==
    UNION {{v.items[i] : i \in DOMAIN v.items} :
             v \in {receipt.events.items[k] : k \in DOMAIN receipt.events.items}}
RegistryFresh ==
    /\ AllDeployed
    /\ _contractsByAddress.defined => _contractsByAddress.byAddress = FreshByAddress

\* C15: parseLogs on a receipt with only a name-keyed event map returns the
\* decoded events in ascending logIndex order whatever the order of the keys:
\* each returned event is the decoding of one emission of the map, single or
\* member of a list, and no decodable emission is missing.
C15_EventMapSorted ==
    ParsedEventMap =>
      /\ \A i, j \in DOMAIN decoded.result :
            i < j => decoded.result[i].logIndex < decoded.result[j].logIndex
      /\ \A i \in DOMAIN decoded.result :
            \E e \in EmissionsOf(decoded.receipt) :
                /\ decoded.result[i].logIndex = e.logIndex
                /\ decoded.result[i].address = e.address
                /\ decoded.result[i].topics = e.raw.topics
      /\ RegistryFresh =>
            \A e \in EmissionsOf(decoded.receipt) :
                Decodable(parseEvent(e))
                  => \E i \in DOMAIN decoded.result :
                        decoded.result[i].logIndex = e.logIndex

\* {LogDeposit: [ev@5], LogOrderFilled: ev@2} gives [LogOrderFilled, LogDeposit]
C15_Witness ==
    /\ ParsedEventMap
    /\ decoded.receipt.events.items
         = <<Array(<<EventLog(RawLog(11, "checksum", 3, 5))>>),
             Single(EventLog(RawLog(15, "lower", 5, 2)))>>
    /\ Len(decoded.result) = 2
    /\ decoded.result[1].name = "LogOrderFilled"
    /\ decoded.result[2].name = "LogDeposit"

\* ------------------------------------------- properties: value decoding
FeeAndPriceNames ==
    {"fee", "price", "oraclePrice", "settlementPrice", "triggerPrice"}
UintN == {uint256, uint32}
IntN == {int256, int8}
BytesN == {bytes32, bytes4}
StructNames == {"balance", "makerBalance", "takerBalance", "index", "flags",
                "fundingRate"}

\* C16: an argument of type uintN or intN, the fee- and price-named uint256
\* aside, decodes to the arbitrary-precision integer of its raw value;
\* address, bool and bytesN (the struct-named bytes32 aside) pass through
\* unchanged; any other non-tuple type fails with the unknown-argument-type
\* error.
C16_TypeDispatch ==
    decoded.op = "parseValue" =>
      LET t == decoded.input.type
          n == decoded.input.name
      IN  /\ (t \in UintN \cup IntN /\ ~(t = uint256 /\ n \in FeeAndPriceNames))
               => /\ decoded.threw = ""
                  /\ decoded.kind = "BigNumber"
                  /\ decoded.value = BigNumberOfString(decoded.argValue)
          /\ ((t \in {address, bool} \cup BytesN)
                /\ ~(t = bytes32 /\ n \in StructNames))
               => /\ decoded.threw = ""
                  /\ decoded.kind = "argValue"
                  /\ decoded.value = decoded.argValue
          /\ t \in {string, uint256Array}
               => decoded.threw = "Unknown event arg type"

\* C17: decoding the encoded form of a balance gives the balance back, for
\* every magnitude and every combination of the two signs: through
\* Balance.fromSolidity(b.toSolidity()), and through parseBalance of the
\* packed word, which has 64 hex digits after 0x; the decoded balance
\* encodes to the same struct again.
C17_BalanceRoundTrip ==
    /\ decoded.op = "fromSolidity"
         => /\ BalanceEquals(decoded.result, decoded.balance)
            /\ toSolidity(decoded.result) = decoded.struct
    /\ decoded.op = "parseBalance"
         => /\ Len(decoded.word) = 2 + 64
            /\ BalanceEquals(decoded.result, decoded.balance)
            /\ toSolidity(decoded.result) = decoded.struct

C17_Witness ==
    /\ decoded.op = "parseBalance"
    /\ decoded.balance.margin = [neg |-> TRUE, abs |-> MaxMagnitude * 16]
    /\ decoded.balance.position = [neg |-> TRUE, abs |-> 0]
    /\ decoded.result.margin = decoded.balance.margin
    /\ decoded.result.position = decoded.balance.position

\* ------------------------------------------- properties: gas accounting
\* A step of resetGasUsed: the total drops to 0, or the list of records is
\* emptied, or something changes while no submission moves.
ResetStep ==
    \/ cumulativeGasUsed # 0 /\ cumulativeGasUsed' = 0
    \/ gasUsedByFunction # <<>> /\ gasUsedByFunction' = <<>>
    \/ call' = call /\ sends' = sends
OutcomeFields ==
    {"none", "transactionHash", "confirmation", "gasEstimate", "gas",
     "gasUsed", "blockNumber"}

\* C18: resetGasUsed brings the running total to 0 and empties the list of
\* per-call records, and changes nothing else: not the default options, not
\* the addresses of the contracts, not the submission in flight; and no
\* value send resolves to has a field for the running total.
C18_ResetFrame ==
    /\ [][ResetStep
            => /\ cumulativeGasUsed' = 0
               /\ gasUsedByFunction' = <<>>
               /\ UNCHANGED <<defaultOptions, debugGasUsage, offDetaches,
                              sends, call, options, _contractsByAddress>>]_vars
    /\ [](DOMAIN call.result \subseteq OutcomeFields)

\* resetGasUsed has run after a counted Confirmed submission returned.
C18_Witness ==
    /\ call.pc = "returned"
    /\ call.sendOptions.confirmationType = Confirmed
    /\ Counted(call)
    /\ call.result.gasUsed = 21000
    /\ debugGasUsage
    /\ cumulativeGasUsed = 0
    /\ gasUsedByFunction = <<>>

\* ------------------------------------------------ properties: the two races
\* The signal is one that completes the confirmation race of this
\* submission: a confirmation that reaches the requested count, or, when no
\* count was requested, the receipt.
Qualifying(sig) ==
    IF Falsy(call.sendOptions.confirmations)
    THEN sig.event = "receipt"
    ELSE sig.event = "confirmation"
           /\ sig.confNumber >= call.sendOptions.confirmations

\* C19: in Both mode a qualifying receipt or confirmation signal emitted at
\* any point after the broadcast resolves the confirmation handle: once send
\* has returned {transactionHash, confirmation} and no race has rejected,
\* the handle is resolved whenever the last signal of the transport was a
\* qualifying one.
C19_LateSignalResolves ==
    (/\ type = Both
     /\ call.pc = "returned"
     /\ call.hashOutcome = RESOLVED
     /\ call.confirmationOutcome # REJECTED
     /\ Qualifying(call.lastSignal))
      => call.confirmationPromise.state = "fulfilled"

\* C20: in Both mode the confirmation race is never Resolved or Rejected
\* while the hash race is still Pending, and it leaves Pending only in a
\* step that starts with the hash race Resolved.
C20_HashBeforeConfirmation ==
    /\ [][(call'.sendOptions.confirmationType = Both
             /\ call.confirmationOutcome = INITIAL
             /\ call'.confirmationOutcome # INITIAL)
            => call.hashOutcome = RESOLVED]_vars
    /\ []((type = Both /\ call.confirmationOutcome # INITIAL)
            => call.hashOutcome = RESOLVED)

\* Both races have left Pending: the hash resolved, then an error rejected
\* the confirmation race.
C20_Witness ==
    /\ type = Both
    /\ call.hashOutcome = RESOLVED
    /\ call.confirmationOutcome = REJECTED
    /\ call.lastSignal.event = "error"

\* ------------------------------------------- properties: the transmission
\* The confirmation type passed the validation of _send.
Validated == type \in ObjectValuesConfirmationType
\* The submission has gone past its gas estimate, or needed none.
PastEstimate ==
    /\ call.pc \notin {"idle", "estimating"}
    /\ call.estimateGasRejection = ""

\* C21: a submission calls method.send exactly once as soon as its
\* confirmation type is validated, is not Simulate, and the gas estimate, if
\* one is needed, has returned; it calls it never before that, never in
\* Simulate mode, and never a second time, whatever signals, errors and
\* rejections of either race follow.
C21_OneTransmission ==
    /\ call.methodSendCalls \in {0, 1}
    /\ (Validated /\ type # Simulate /\ PastEstimate)
         => call.methodSendCalls = 1
    /\ (~Validated \/ type = Simulate \/ ~PastEstimate)
         => call.methodSendCalls = 0

\* The hash race of the second submission was rejected by an error after
\* an estimate: one transmission, and none after the error.
C21_Witness ==
    /\ sends = 2
    /\ call.pc = "failed"
    /\ call.estimateGasCalls = 1
    /\ call.hashPromise.state = "rejected"
    /\ call.methodSendCalls = 1

\* The caller gave a gas limit: the defaults of the constructor have none.
GasSupplied == call.sendOptions.gas # Null
\* g is floor(gasEstimate * gasMultiplier) for an estimate the peer may give.
FlooredEstimate(g) ==
    \E gasEstimate \in GasEstimates :
        /\ 10 * g <= gasEstimate * call.sendOptions.gasMultiplier
        /\ gasEstimate * call.sendOptions.gasMultiplier < 10 * (g + 1)

\* C22: in a validated submission that is not a simulation, a supplied gas
\* limit means that estimateGas is never called and that the broadcast
\* carries the supplied limit; no supplied gas limit means that estimateGas
\* is called exactly once, before the broadcast, and that the broadcast
\* carries floor(estimate * gasMultiplier).
C22_GasFinalization ==
    (Validated /\ type # Simulate /\ call.pc # "idle") =>
        /\ GasSupplied
             => /\ call.estimateGasCalls = 0
                /\ Broadcast => call.broadcastGas = call.sendOptions.gas
        /\ ~GasSupplied
             => /\ call.estimateGasCalls = 1
                /\ call.pc = "estimating" => ~Broadcast
                /\ Broadcast => FlooredEstimate(call.broadcastGas)

\* ------------------------------------------ properties: lists of logs
\* C23: parseLogs on a receipt with a list of logs returns, in the order of
\* the list, the decoding of exactly the logs that come from a contract of
\* the present configuration whose ABI declares their event; logs of an
\* unknown address or an unknown signature are dropped, and an event map
\* that the receipt also carries is not looked at.
C23_LogListDecoded ==
    ParsedLogList =>
      LET kept == SelectSeq(LogsOf(decoded.receipt), Decodable)
      IN  /\ Returned
          /\ Len(decoded.result) = Len(kept)
          /\ \A i \in DOMAIN kept :
                /\ decoded.result[i].logIndex = kept[i].logIndex
                /\ decoded.result[i].address = kept[i].address
                /\ decoded.result[i].topics = kept[i].topics

\* --------------------------------------------- properties: struct arguments
\* The error the declared struct calls for: its internal type is not a
\* registered one, or its component names are not the registered names in
\* the registered order; "" when the declaration is the registered layout.
LayoutError(input) ==
    IF input.internalType \notin TupleTypes
    THEN "Unknown tuple type in event"
    ELSE IF [i \in DOMAIN input.components |-> input.components[i].name]
              # TUPLE_MAP(input.internalType)
    THEN "Arg name mismatch for tuple"
    ELSE ""
\* The same for a log of P1Orders: "" when its event has no struct argument.
LayoutErrorOfLog(log) ==
    IF log.topics[1].id > 40
    THEN LayoutError(TupleInputList[log.topics[1].id - 40])
    ELSE ""

\* C24: decoding a struct argument throws the unknown-tuple-type error when
\* its internal type is not registered and the name-mismatch error when its
\* component names or their order differ from the registered layout; on an
\* exact match every component is decoded as an argument of its own.
\* parseLogs on a list with such a log throws the error of the first one
\* and returns nothing; it never returns with the log left out.
C24_TupleLayout ==
    /\ (decoded.op = "parseValue" /\ decoded.input.type = tuple)
         => /\ decoded.threw = LayoutError(decoded.input)
            /\ decoded.threw = ""
                 => /\ decoded.kind = "Object"
                    /\ \A i \in DOMAIN decoded.input.components :
                          LET component == decoded.input.components[i]
                          IN  decoded.value[component.name]
                                = parseValue(component,
                                             decoded.argValue[component.name])
    /\ ParsedLogList
         => LET logs == LogsOf(decoded.receipt)
                failing == {i \in DOMAIN logs : LayoutErrorOfLog(logs[i]) # ""}
            IN  IF failing = {}
                THEN Returned /\ Len(decoded.result) = Len(logs)
                ELSE /\ decoded.result = <<>>
                     /\ \E i \in failing :
                           /\ \A j \in failing : i <= j
                           /\ decoded.threw = LayoutErrorOfLog(logs[i])

\* A list of two logs: the first has the registered layout, the second has
\* two components in the other order.
C24_Witness ==
    /\ ParsedLogList
    /\ LogsOf(decoded.receipt)
         = <<RawLog(15, "checksum", 41, 1), RawLog(15, "checksum", 43, 2)>>
    /\ decoded.threw = "Arg name mismatch for tuple"
    /\ decoded.result = <<>>

\* ------------------------------------------------- properties: the options
\* C25: no step of a submission changes the stored default options, and
\* no step after the call of send changes the options object the caller
\* passed or the merged options of the submission.  Every submission
\* therefore starts from the defaults of the constructor, and every
\* validated one whose caller gave no gas limit estimates gas, however many
\* submissions with an estimate came before.
C25_OptionsUntouched ==
    /\ [][/\ defaultOptions' = defaultOptions
          /\ sends' = sends
               => /\ call'.specificOptions = call.specificOptions
                  /\ call'.sendOptions = call.sendOptions]_vars
    /\ [](call.pc # "idle"
            => /\ call.sendOptions = Merge(DefaultOptions, call.specificOptions)
               /\ (Validated /\ "gas" \notin DOMAIN call.specificOptions)
                    => call.estimateGasCalls = 1)

\* The second submission, without a gas limit of the caller, has been
\* estimated and broadcast with floor(5 * 1.5) = 7; the limit is in
\* txOptions only.
C25_Witness ==
    /\ sends = 2
    /\ call.specificOptions = [confirmationType |-> Hash]
    /\ Broadcast
    /\ call.txOptions.gas = 7
    /\ call.sendOptions.gas = Null
    /\ defaultOptions.gas = Null

\* C26: a step of a submission changes the running total or the list of
\* gas records only when it is the step in which send returns, in Confirmed
\* or Both mode, for a contract that is not a test contract.  No step of a
\* Hash or Simulate send, of a send to a test contract, or of a send that
\* fails (invalid type, failed estimate, rejected hash race, rejected
\* confirmation) is such a step.
C26_GasFrame ==
    [][(call' # call
          /\ \/ cumulativeGasUsed' # cumulativeGasUsed
             \/ gasUsedByFunction' # gasUsedByFunction)
         => /\ call'.pc = "returned"
            /\ call.pc # "returned"
            /\ call'.sendOptions.confirmationType \in {Confirmed, Both}
            /\ ~IsTest(call'.target)]_vars

\* A confirmed send has been counted; the confirmation of the next one was
\* rejected and the total and the list are as they were.
C26_Witness ==
    /\ sends = 2
    /\ type = Confirmed
    /\ call.pc = "failed"
    /\ call.confirmationPromise.state = "rejected"
    /\ cumulativeGasUsed = 21000
    /\ Len(gasUsedByFunction) = 1

\* ------------------------------------- properties: decoding an outcome
\* C27: parseLogs throws 'Receipt has no logs' exactly when what it is
\* given has neither logs nor events; that is so for the value a Hash send,
\* a Simulate send and a Both send resolve to, the latter also once its
\* confirmation has resolved, and for no receipt with logs or events.
C27_NoLogsError ==
    decoded.op = "parseLogs" =>
        /\ decoded.threw = "Receipt has no logs"
             <=> /\ ~decoded.receipt.logs.present
                 /\ ~decoded.receipt.events.present
        /\ type \in {Hash, Simulate, Both}
             => decoded.threw = "Receipt has no logs"
        /\ (type = Confirmed /\ decoded.receipt.logs.present
               /\ decoded.receipt.logs.items = <<>>)
             => Returned /\ decoded.result = <<>>

\* The outcome of a Both send is decoded after the receipt has resolved its
\* confirmation.
C27_Witness ==
    /\ decoded.op = "parseLogs"
    /\ type = Both
    /\ call.confirmationPromise.state = "fulfilled"
    /\ DOMAIN call.result = {"transactionHash", "confirmation"}
    /\ decoded.threw = "Receipt has no logs"
====
